---- MODULE Spec2Model ----
(***************************************************************************)
(* Model of Megatron-LM/install_model.py: a straight-line script that      *)
(* fetches a tokenizer and a config for one model identifier from the      *)
(* model hub and saves each to its own local directory.  The hub client    *)
(* and the filesystem are the environment: every call may succeed or       *)
(* raise, and the hub may move the identifier to a newer revision.         *)
(***************************************************************************)
EXTENDS Integers, Sequences, FiniteSets, TLC

(* ---- bounds of the model ---- *)
MaxRuns == 2
MaxRevision == 2

(* ---- constants of the script ---- *)
model_name == "meta-llama/Llama-2-7b-hf"
TokDir == "./llama2_tokenizer"
CfgDir == "./llama2_config"
Dirs == {TokDir, CfgDir}

\* exit status of the interpreter after an uncaught exception
UncaughtExit == 1

Ops == {"fetchTok", "fetchCfg", "saveTok", "saveCfg"}

\* mutant: the tokenizer is saved before the config has been fetched
ScriptOrder_SaveEarly == <<"fetchTok", "saveTok", "fetchCfg", "saveCfg">>

\* mutant: the config is fetched before the tokenizer
ScriptOrder_Swapped == <<"fetchCfg", "fetchTok", "saveTok", "saveCfg">>

\* the statements of the module body in textual order (lines 5, 6, 9, 11)
ScriptOrder == <<"fetchTok", "fetchCfg", "saveTok", "saveCfg">>

\* the orders of the four statements that keep each fetch before its own save
Interleavings ==
  { <<"fetchTok", "fetchCfg", "saveTok", "saveCfg">>,
    <<"fetchTok", "fetchCfg", "saveCfg", "saveTok">>,
    <<"fetchTok", "saveTok", "fetchCfg", "saveCfg">>,
    <<"fetchCfg", "fetchTok", "saveTok", "saveCfg">>,
    <<"fetchCfg", "fetchTok", "saveCfg", "saveTok">>,
    <<"fetchCfg", "saveCfg", "fetchTok", "saveTok">> }

(* ---- handles returned by the hub client ---- *)
NoHandle == [kind |-> "none", model |-> "", rev |-> 0]

\* mutant: the config is resolved at a fixed first revision, the tokenizer at the latest
FromPretrained_StaleConfig(kind, name, hubRev) ==
  [kind |-> kind, model |-> name, rev |-> IF kind = "config" THEN 1 ELSE hubRev]

\* AutoTokenizer.from_pretrained / AutoConfig.from_pretrained with no revision
\* argument: the handle is whatever the hub resolves the identifier to now
FromPretrained(kind, name, hubRev) ==
  [kind |-> kind, model |-> name, rev |-> hubRev]

(* ---- filesystem: a directory is absent, or holds named files ---- *)
AbsentDir == [exists |-> FALSE, files |-> {}]
StaleFile == <<"README.md", <<0>>>>
StaleDir == [exists |-> TRUE, files |-> {StaleFile}]

Names(d) == {f[1] : f \in d.files}
ContentOf(d, n) == (CHOOSE f \in d.files : f[1] = n)[2]

\* the files save_pretrained writes for each kind of handle, in writing order
ArtifactFiles(kind) ==
  IF kind = "tokenizer" THEN <<"tokenizer_config.json", "tokenizer.model">>
  ELSE IF kind = "config" THEN <<"config.json">>
  ELSE << >>

\* mutant: an existing file is opened for append instead of being truncated
WriteFile_Append(d, n, c) ==
  [exists |-> TRUE,
   files |-> {f \in d.files : f[1] # n}
             \cup {<<n, (IF n \in Names(d) THEN ContentOf(d, n) ELSE << >>) \o c>>}]

\* one file written into a directory, replacing a file of the same name
WriteFile(d, n, c) ==
  [exists |-> TRUE, files |-> {f \in d.files : f[1] # n} \cup {<<n, c>>}]

RECURSIVE WriteAll(_, _, _)
WriteAll(d, names, c) ==
  IF names = << >> THEN [exists |-> TRUE, files |-> d.files]
  ELSE WriteAll(WriteFile(d, Head(names), c), Tail(names), c)

\* mutant: both saves are given the tokenizer directory
SaveDir_SamePath(op) == TokDir

\* the destination literal of each save statement (lines 9 and 11)
SaveDir(op) == IF op = "saveTok" THEN TokDir ELSE CfgDir

\* save_pretrained(dir): the directory is created if absent and the handle's
\* files are written over files of the same name.  A save that raises has
\* either changed nothing ("fail") or has created the directory and written
\* all but the last file ("partial"); nothing is removed again.
SavePretrained(handle, dir, outcome, f) ==
  LET names == ArtifactFiles(handle.kind)
      some  == IF outcome = "ok" THEN names
               ELSE SubSeq(names, 1, Len(names) - 1)
  IN  IF outcome = "fail" THEN f
      ELSE [f EXCEPT ![dir] = WriteAll(f[dir], some, <<handle.rev>>)]

(* ---- control flow of the module body ---- *)
\* mutant: a statement that raised is executed again
Continue_Retry(i, n, outcome) ==
  IF outcome = "ok"
  THEN [pc |-> IF i < n THEN i + 1 ELSE i, running |-> i < n, exitCode |-> 0]
  ELSE [pc |-> i, running |-> TRUE, exitCode |-> 0]

\* mutant: an exception is swallowed and the script goes on
Continue_Swallow(i, n, outcome) ==
  [pc |-> IF i < n THEN i + 1 ELSE i, running |-> i < n, exitCode |-> 0]

\* mutant: the script reports success whatever happened
Continue_ExitZero(i, n, outcome) ==
  IF outcome = "ok"
  THEN [pc |-> IF i < n THEN i + 1 ELSE i, running |-> i < n, exitCode |-> 0]
  ELSE [pc |-> i, running |-> FALSE, exitCode |-> 0]

\* mutant: an exception of the last statement is swallowed
Continue_SwallowLast(i, n, outcome) ==
  IF outcome = "ok" \/ i = n
  THEN [pc |-> IF i < n THEN i + 1 ELSE i, running |-> i < n, exitCode |-> 0]
  ELSE [pc |-> i, running |-> FALSE, exitCode |-> UncaughtExit]

\* after statement i of n: a statement that returned is followed by the next
\* one, and the end of the file exits with 0; a statement that raised is not
\* caught anywhere, so the interpreter exits at once with UncaughtExit
Continue(i, n, outcome) ==
  IF outcome = "ok"
  THEN [pc |-> IF i < n THEN i + 1 ELSE i, running |-> i < n, exitCode |-> 0]
  ELSE [pc |-> i, running |-> FALSE, exitCode |-> UncaughtExit]

VARIABLES
  order,      \* the statements of the script, in execution order
  pc,         \* index in order of the statement to execute (or that raised)
  running,    \* FALSE once the interpreter has exited
  exitCode,   \* exit status, meaningful once running is FALSE
  tokenizer,  \* module-level name tokenizer
  config,     \* module-level name config
  fs,         \* the two destination directories
  hub,        \* revision the hub currently resolves model_name to
  env,        \* how each external call of this run ends
  calls,      \* number of invocations of each external call in this run
  result,     \* how each external call of this run ended ("none" before)
  resolved,   \* hub revision at the time of each fetch (0 before)
  run,        \* number of the current run of the script
  fsStart,    \* fs when the current run started
  prev        \* final state of the previous run

vars == <<order, pc, running, exitCode, tokenizer, config, fs, hub, env,
          calls, result, resolved, run, fsStart, prev>>

Envs == [fetchTok : {"ok", "fail"}, fetchCfg : {"ok", "fail"},
         saveTok : {"ok", "fail", "partial"}, saveCfg : {"ok", "fail", "partial"}]

NoPrev == [ran |-> FALSE, exitCode |-> 0, fs |-> [d \in Dirs |-> AbsentDir],
           tokenizer |-> NoHandle, config |-> NoHandle]

InitWith(orders) ==
  /\ order \in orders
  /\ pc = 1
  /\ running = TRUE
  /\ exitCode = 0
  /\ tokenizer = NoHandle
  /\ config = NoHandle
  /\ fs \in [Dirs -> {AbsentDir, StaleDir}]
  /\ hub = 1
  /\ env \in Envs
  /\ calls = [o \in Ops |-> 0]
  /\ result = [o \in Ops |-> "none"]
  /\ resolved = [o \in {"fetchTok", "fetchCfg"} |-> 0]
  /\ run = 1
  /\ fsStart = fs
  /\ prev = NoPrev

Init == InitWith({ScriptOrder})

At(op) == running /\ order[pc] = op

Goto(outcome) ==
  LET c == Continue(pc, Len(order), outcome)
  IN  /\ pc' = c.pc
      /\ running' = c.running
      /\ exitCode' = c.exitCode

Record(op, outcome) ==
  /\ calls' = [calls EXCEPT ![op] = @ + 1]
  /\ result' = [result EXCEPT ![op] = outcome]

\* line 5: tokenizer = AutoTokenizer.from_pretrained(model_name)
FetchTokenizer ==
  /\ At("fetchTok")
  /\ LET outcome == env.fetchTok
     IN  /\ tokenizer' = IF outcome = "ok"
                         THEN FromPretrained("tokenizer", model_name, hub)
                         ELSE tokenizer
         /\ resolved' = [resolved EXCEPT !["fetchTok"] = hub]
         /\ Record("fetchTok", outcome)
         /\ Goto(outcome)
  /\ UNCHANGED <<order, config, fs, hub, env, run, fsStart, prev>>

\* line 6: config = AutoConfig.from_pretrained(model_name)
FetchConfig ==
  /\ At("fetchCfg")
  /\ LET outcome == env.fetchCfg
     IN  /\ config' = IF outcome = "ok"
                      THEN FromPretrained("config", model_name, hub)
                      ELSE config
         /\ resolved' = [resolved EXCEPT !["fetchCfg"] = hub]
         /\ Record("fetchCfg", outcome)
         /\ Goto(outcome)
  /\ UNCHANGED <<order, tokenizer, fs, hub, env, run, fsStart, prev>>

\* a save on a name that was never bound raises before touching the disk
SaveOutcome(handle, op) == IF handle = NoHandle THEN "fail" ELSE env[op]

\* line 9: tokenizer.save_pretrained('./llama2_tokenizer')
SaveTokenizer ==
  /\ At("saveTok")
  /\ LET outcome == SaveOutcome(tokenizer, "saveTok")
     IN  /\ fs' = SavePretrained(tokenizer, SaveDir("saveTok"), outcome, fs)
         /\ Record("saveTok", outcome)
         /\ Goto(outcome)
  /\ UNCHANGED <<order, tokenizer, config, hub, env, resolved, run, fsStart, prev>>

\* line 11: config.save_pretrained('./llama2_config')
SaveConfig ==
  /\ At("saveCfg")
  /\ LET outcome == SaveOutcome(config, "saveCfg")
     IN  /\ fs' = SavePretrained(config, SaveDir("saveCfg"), outcome, fs)
         /\ Record("saveCfg", outcome)
         /\ Goto(outcome)
  /\ UNCHANGED <<order, tokenizer, config, hub, env, resolved, run, fsStart, prev>>

\* the hub moves model_name to a newer revision (no revision is pinned)
HubUpdate ==
  /\ hub < MaxRevision
  /\ hub' = hub + 1
  /\ UNCHANGED <<order, pc, running, exitCode, tokenizer, config, fs, env,
                 calls, result, resolved, run, fsStart, prev>>

\* the script is run again: a fresh interpreter over the same directories
StartRun ==
  /\ ~running
  /\ run < MaxRuns
  /\ run' = run + 1
  /\ prev' = [ran |-> TRUE, exitCode |-> exitCode, fs |-> fs,
              tokenizer |-> tokenizer, config |-> config]
  /\ pc' = 1
  /\ running' = TRUE
  /\ exitCode' = 0
  /\ tokenizer' = NoHandle
  /\ config' = NoHandle
  /\ env' \in Envs
  /\ calls' = [o \in Ops |-> 0]
  /\ result' = [o \in Ops |-> "none"]
  /\ resolved' = [o \in {"fetchTok", "fetchCfg"} |-> 0]
  /\ fsStart' = fs
  /\ UNCHANGED <<order, fs, hub>>

Step == FetchTokenizer \/ FetchConfig \/ SaveTokenizer \/ SaveConfig

Next ==
  \/ FetchTokenizer
  \/ FetchConfig
  \/ SaveTokenizer
  \/ SaveConfig
  \/ HubUpdate
  \/ StartRun

Spec == Init /\ [][Next]_vars

\* every blocking call eventually returns or raises
FairSpec == Spec /\ WF_vars(Step)

\* the same statements, run in any order that keeps each fetch before its save
InitInterleaved == InitWith(Interleavings)
SpecInterleaved == InitInterleaved /\ [][Next]_vars


(* ---- the script as a function of its environment ---- *)
\* the module body run from statement i to its exit, in a fixed environment e
\* and with the hub at a fixed revision: s holds the two names and the disk
RECURSIVE RunFrom(_, _, _, _)
RunFrom(ord, i, e, s) ==
  LET op == ord[i]
      outcome ==
        IF op = "fetchTok" \/ op = "fetchCfg" THEN e[op]
        ELSE IF op = "saveTok"
             THEN (IF s.tokenizer = NoHandle THEN "fail" ELSE e[op])
             ELSE (IF s.config = NoHandle THEN "fail" ELSE e[op])
      s2 ==
        IF op = "fetchTok"
        THEN [s EXCEPT !.tokenizer =
                IF outcome = "ok" THEN FromPretrained("tokenizer", model_name, s.hub) ELSE @]
        ELSE IF op = "fetchCfg"
        THEN [s EXCEPT !.config =
                IF outcome = "ok" THEN FromPretrained("config", model_name, s.hub) ELSE @]
        ELSE IF op = "saveTok"
        THEN [s EXCEPT !.fs = SavePretrained(s.tokenizer, SaveDir(op), outcome, @)]
        ELSE [s EXCEPT !.fs = SavePretrained(s.config, SaveDir(op), outcome, @)]
      c == Continue(i, Len(ord), outcome)
  IN  IF c.running THEN RunFrom(ord, c.pc, e, s2)
      ELSE [fs |-> s2.fs, exitCode |-> c.exitCode]

RunScript(ord, e, f, h) ==
  RunFrom(ord, 1, e, [tokenizer |-> NoHandle, config |-> NoHandle, fs |-> f, hub |-> h])

(* ---- vocabulary of the properties ---- *)
Raised(o) == result[o] \in {"fail", "partial"}
AllOk == \A o \in Ops : result[o] = "ok"
EnvAllOk == \A o \in Ops : env[o] = "ok"
Exited == ~running

\* the place of each statement in the documented four-step sequence
Position(o) ==
  IF o = "fetchTok" THEN 1 ELSE IF o = "fetchCfg" THEN 2
  ELSE IF o = "saveTok" THEN 3 ELSE 4

\* directory d holds file n with exactly the content of revision r
HoldsFile(d, n, r) == fs[d].exists /\ <<n, <<r>>>> \in fs[d].files

\* which directories exist and which file names they hold
Layout(f) == [d \in Dirs |-> [exists |-> f[d].exists, names |-> Names(f[d])]]

\* what the script's own order does in the environment of the current run
Sequential == RunScript(<<"fetchTok", "fetchCfg", "saveTok", "saveCfg">>, env, fsStart, hub)

(* ---- C1 ---- *)
\* C1: when the tokenizer fetch or the config fetch raises, the run ends with
\* a non-zero exit code and both directories are exactly as the run found them.
C1_FetchFailureWritesNothing ==
  (Exited /\ (Raised("fetchTok") \/ Raised("fetchCfg")))
    => (exitCode # 0 /\ fs = fsStart)

C1_Witness ==
  /\ Exited /\ result["fetchTok"] = "ok" /\ Raised("fetchCfg")
  /\ env["saveTok"] = "ok" /\ env["saveCfg"] = "ok"
  /\ exitCode # 0 /\ fs = fsStart /\ ~fs[TokDir].exists

(* ---- C2 ---- *)
\* C2: when the identifier resolves and the destinations are writable (all
\* four calls succeed), the run ends with exit code 0 and both directories
\* exist and are non-empty: ./llama2_tokenizer holds the tokenizer files and
\* ./llama2_config holds the config file, each of the fetched revision.
C2_SuccessPopulatesBoth ==
  (Exited /\ EnvAllOk) =>
    /\ exitCode = 0
    /\ \A d \in Dirs : fs[d].exists /\ fs[d].files # {}
    /\ tokenizer.kind = "tokenizer" /\ config.kind = "config"
    /\ HoldsFile(TokDir, "tokenizer.model", tokenizer.rev)
    /\ HoldsFile(TokDir, "tokenizer_config.json", tokenizer.rev)
    /\ HoldsFile(CfgDir, "config.json", config.rev)

C2_Witness ==
  /\ Exited /\ EnvAllOk /\ exitCode = 0
  /\ ~fsStart[TokDir].exists /\ ~fsStart[CfgDir].exists
  /\ HoldsFile(TokDir, "tokenizer.model", tokenizer.rev)
  /\ HoldsFile(CfgDir, "config.json", config.rev)

(* ---- C3 ---- *)
\* C3 as stated: whenever both artifacts have been saved, the saved tokenizer
\* and the saved config are of the same model revision, also when the hub
\* moves the identifier between the two fetches.
C3_Original_SameVersionAlways ==
  (result["saveTok"] = "ok" /\ result["saveCfg"] = "ok")
    => \E r \in 1..MaxRevision :
         /\ HoldsFile(TokDir, "tokenizer.model", r)
         /\ HoldsFile(CfgDir, "config.json", r)

\* C3 amended: both handles are fetched for the same identifier, each saved
\* artifact is of the revision the hub resolved at the time of its own fetch,
\* and the two are of the same revision when the hub resolved the identifier
\* to the same revision at both fetches.
C3_SameVersionIfHubStable ==
  (result["saveTok"] = "ok" /\ result["saveCfg"] = "ok") =>
    /\ tokenizer.model = "meta-llama/Llama-2-7b-hf"
    /\ config.model = tokenizer.model
    /\ HoldsFile(TokDir, "tokenizer.model", resolved["fetchTok"])
    /\ HoldsFile(CfgDir, "config.json", resolved["fetchCfg"])
    /\ (resolved["fetchTok"] = resolved["fetchCfg"] =>
          \E r \in 1..MaxRevision :
            /\ HoldsFile(TokDir, "tokenizer.model", r)
            /\ HoldsFile(CfgDir, "config.json", r))

C3_Witness ==
  /\ result["saveTok"] = "ok" /\ result["saveCfg"] = "ok"
  /\ resolved["fetchTok"] = resolved["fetchCfg"]
  /\ resolved["fetchTok"] > 1
  /\ HoldsFile(TokDir, "tokenizer.model", resolved["fetchTok"])
  /\ HoldsFile(CfgDir, "config.json", resolved["fetchTok"])

(* ---- C4 ---- *)
\* C4: the statements run in the fixed order fetch tokenizer, fetch config,
\* save tokenizer, save config: a statement has been started only if every
\* earlier one has been run once and has succeeded, so no save is attempted
\* before both fetches have succeeded.
C4_FixedSequence ==
  /\ \A o \in Ops : calls[o] > 0 =>
        \A p \in Ops : Position(p) < Position(o) => (calls[p] = 1 /\ result[p] = "ok")
  /\ \A o \in Ops : (running /\ order[pc] = o) =>
        \A p \in Ops : Position(p) < Position(o) => result[p] = "ok"
  /\ (calls["saveTok"] > 0 \/ calls["saveCfg"] > 0) =>
        (tokenizer # NoHandle /\ config # NoHandle)

C4_Witness ==
  /\ calls["saveCfg"] = 1
  /\ result["fetchTok"] = "ok" /\ result["fetchCfg"] = "ok" /\ result["saveTok"] = "ok"

(* ---- C5 ---- *)
\* C5: a call that raises ends the run at once with a non-zero exit code:
\* no later statement is ever executed and the exited script changes nothing
\* any more; what an earlier statement wrote is not rolled back, so a saved
\* tokenizer stays in ./llama2_tokenizer when the config save raises.
C5_FailFastState ==
  /\ \A o \in Ops : Raised(o) =>
        /\ Exited /\ exitCode # 0
        /\ \A p \in Ops : Position(p) > Position(o) => (calls[p] = 0 /\ result[p] = "none")
  /\ result["saveTok"] = "ok" =>
        /\ HoldsFile(TokDir, "tokenizer.model", tokenizer.rev)
        /\ HoldsFile(TokDir, "tokenizer_config.json", tokenizer.rev)
  /\ \A d \in Dirs :
        /\ fsStart[d].exists => fs[d].exists
        /\ \A f \in fsStart[d].files :
              f[1] \notin {"tokenizer.model", "tokenizer_config.json", "config.json"}
                => f \in fs[d].files

C5_FailFastNoCleanup ==
  /\ []C5_FailFastState
  /\ [][(Exited /\ run' = run) => UNCHANGED <<fs, calls, result, tokenizer, config, exitCode>>]_vars

C5_Witness ==
  /\ Exited /\ exitCode # 0
  /\ result["saveTok"] = "ok" /\ Raised("saveCfg")
  /\ ~fsStart[TokDir].exists
  /\ HoldsFile(TokDir, "tokenizer.model", tokenizer.rev)

(* ---- C6 ---- *)
\* C6: a second run after a successful first run, in which the hub returns
\* the same tokenizer and config and which succeeds too, leaves the disk
\* exactly as the first run left it: every file is overwritten with the same
\* content, none is duplicated.
C6_SecondRunSameState ==
  (Exited /\ exitCode = 0 /\ prev.ran /\ prev.exitCode = 0
     /\ prev.tokenizer = tokenizer /\ prev.config = config)
    => fs = prev.fs

C6_Witness ==
  /\ Exited /\ exitCode = 0 /\ run = 2 /\ prev.ran /\ prev.exitCode = 0
  /\ prev.tokenizer = tokenizer /\ prev.config = config
  /\ calls["saveTok"] = 1 /\ calls["saveCfg"] = 1
  /\ fs = prev.fs /\ fs[TokDir].files # {}

(* ---- C7 ---- *)
\* C7: every run terminates, and it exits with code 0 exactly when all four
\* calls succeeded and with a non-zero code otherwise (each blocking call
\* eventually returns or raises).
C7_ExitCode ==
  Exited => /\ (exitCode = 0 <=> AllOk)
            /\ (exitCode # 0 <=> \E o \in Ops : Raised(o))
            /\ (exitCode = 0 <=> EnvAllOk)

C7_TerminatesWithExitCode ==
  /\ []C7_ExitCode
  /\ (running ~> Exited)

C7_Witness ==
  /\ Exited /\ exitCode # 0
  /\ result["fetchTok"] = "ok" /\ result["fetchCfg"] = "ok"
  /\ result["saveTok"] = "ok" /\ Raised("saveCfg")

(* ---- C8 ---- *)
\* C8 as stated: in every environment, every order of the four statements
\* that keeps each fetch before its own save ends with the same directories
\* populated and the same exit code as the script's order.
C8_Original_AnyInterleavingSame ==
  Exited => /\ exitCode = Sequential.exitCode
            /\ Layout(fs) = Layout(Sequential.fs)

\* C8 amended: every such order ends with the same exit code as the script's
\* order, and with the same directories populated when all four calls
\* succeed; when a call raises, the populated directories can differ.
C8_InterleavingSameOnSuccess ==
  Exited => /\ exitCode = Sequential.exitCode
            /\ (exitCode = 0 => Layout(fs) = Layout(Sequential.fs))

C8_Witness ==
  /\ Exited /\ exitCode = 0
  /\ order = <<"fetchCfg", "saveCfg", "fetchTok", "saveTok">>
  /\ Layout(fs) = Layout(Sequential.fs)
  /\ ~fsStart[TokDir].exists

(* ---- C9 ---- *)
\* C9: in one run each of the four calls is invoked at most once, a call that
\* raised is not attempted again, and a run that succeeds has saved each
\* handle exactly once.
C9_NoRetries ==
  /\ \A o \in Ops : calls[o] <= 1
  /\ \A o \in Ops : Raised(o) => (calls[o] = 1 /\ Exited)
  /\ (Exited /\ exitCode = 0) => \A o \in Ops : calls[o] = 1

C9_Witness ==
  /\ Exited /\ Raised("saveTok") /\ calls["saveTok"] = 1
  /\ calls["saveCfg"] = 0

(* ---- C10 ---- *)
\* C10: the two destinations are distinct: the tokenizer save leaves
\* ./llama2_config unchanged and the config save leaves ./llama2_tokenizer
\* unchanged, and neither writes a file name the other writes.
C10_SavesAreFramed ==
  [][/\ (calls'["saveTok"] > calls["saveTok"] => fs'[CfgDir] = fs[CfgDir])
     /\ (calls'["saveCfg"] > calls["saveCfg"] => fs'[TokDir] = fs[TokDir])
     /\ \A d \in Dirs : fs'[d] # fs[d] =>
           \/ (d = "./llama2_tokenizer" /\ calls'["saveTok"] > calls["saveTok"])
           \/ (d = "./llama2_config" /\ calls'["saveCfg"] > calls["saveCfg"])]_vars

C10_Witness ==
  /\ result["saveTok"] = "ok" /\ result["saveCfg"] = "ok"
  /\ fs[TokDir] # fsStart[TokDir] /\ fs[CfgDir] # fsStart[CfgDir]
  /\ Names(fs[TokDir]) \cap Names(fs[CfgDir]) = {}

====
